---- MODULE Spec2Model ----
(***************************************************************************)
(* A model of the jobly API: the partial-update SQL helper                 *)
(* (helpers/sql.js), the User model (models/user.js) and the users and     *)
(* companies routers (routes/users.js, routes/companies.js).               *)
(*                                                                         *)
(* JavaScript values are modelled as follows.                              *)
(*   - a plain object is the sequence of its <<key, value>> entries in the *)
(*     order Object.keys / Object.values enumerate them;                   *)
(*   - undefined is the empty sequence <<>> and a defined value v is <<v>>;*)
(*   - a template string is the sequence of its pieces (tokens), so that   *)
(*     the text a statement is built from can be taken apart again;        *)
(*   - scalar values are strings (JSON true is "true").                    *)
(***************************************************************************)
EXTENDS Integers, Sequences, FiniteSets, TLC

VARIABLES db, req, res, calls

vars == <<db, req, res, calls>>

(***************************************************************************)
(* Bounds of the model.                                                    *)
(***************************************************************************)
MaxEntries == 3

(***************************************************************************)
(* helpers/sql.js                                                          *)
(***************************************************************************)
Undefined == <<>>

\* Object.keys(o) and Object.values(o): same enumeration order.
ObjectKeys(o) == [i \in 1..Len(o) |-> o[i][1]]

ObjectValues(o) == [i \in 1..Len(o) |-> o[i][2]]

\* o[k] for a lookup object o (a function on the keys it owns).
Lookup(o, k) == IF k \in DOMAIN o THEN <<o[k]>> ELSE Undefined

\* JavaScript truthiness of a string-or-undefined.
Truthy(v) == v # Undefined /\ v[1] # ""

\* a || b
Or(a, b) == IF Truthy(a) THEN a[1] ELSE b

\* Array.prototype.join on an array of token sequences.
RECURSIVE Join(_, _)
Join(parts, sep) ==
    IF Len(parts) = 0 THEN <<>>
    ELSE IF Len(parts) = 1 THEN parts[1]
    ELSE parts[1] \o <<sep>> \o Join(Tail(parts), sep)

ColFragmentOffByOne(jsToSql, colName, idx) ==
    <<"\"", Or(Lookup(jsToSql, colName), colName), "\"=$", ToString(idx)>>

ColFragmentNoFallback(jsToSql, colName, idx) ==
    <<"\"", IF Lookup(jsToSql, colName) = Undefined THEN "undefined"
            ELSE jsToSql[colName], "\"=$", ToString(idx + 1)>>

\* `"${jsToSql[colName] || colName}"=$${idx + 1}`, idx the 0-based index.
ColFragment(jsToSql, colName, idx) ==
    <<"\"", Or(Lookup(jsToSql, colName), colName), "\"=$", ToString(idx + 1)>>

Thrown(e) == [err |-> e, ret |-> Undefined]

Returned(v) == [err |-> "none", ret |-> <<v>>]

sqlForPartialUpdateNoCheck(dataToUpdate, jsToSql) ==
    LET keys == ObjectKeys(dataToUpdate)
        cols == [i \in 1..Len(keys) |-> ColFragment(jsToSql, keys[i], i - 1)]
    IN  Returned([setCols |-> Join(cols, ", "),
                  values  |-> ObjectValues(dataToUpdate)])

sqlForPartialUpdate(dataToUpdate, jsToSql) ==
    LET keys == ObjectKeys(dataToUpdate)
        cols == [i \in 1..Len(keys) |-> ColFragment(jsToSql, keys[i], i - 1)]
    IN  IF Len(keys) = 0 THEN Thrown("BadRequestError")
        ELSE Returned([setCols |-> Join(cols, ", "),
                       values  |-> ObjectValues(dataToUpdate)])

(***************************************************************************)
(* Reading a generated clause back: its fragments, and what each names.    *)
(***************************************************************************)
RECURSIVE SplitOn(_, _)
SplitOn(s, sep) ==
    IF \E i \in 1..Len(s) : s[i] = sep
    THEN LET i == CHOOSE i \in 1..Len(s) :
                     s[i] = sep /\ \A j \in 1..(i - 1) : s[j] # sep
         IN  <<SubSeq(s, 1, i - 1)>> \o SplitOn(SubSeq(s, i + 1, Len(s)), sep)
    ELSE <<s>>

Fragments(clause) == IF clause = <<>> THEN <<>> ELSE SplitOn(clause, ", ")

\* A fragment "<column>"=$<k>
IsAssignment(f) == Len(f) = 4 /\ f[1] = "\"" /\ f[3] = "\"=$"

SqlReturned == res.op = "sqlForPartialUpdate"

\* The column the mapping gives a field name, the name itself without entry.
Resolved(jsToSql, name) == IF name \in DOMAIN jsToSql THEN jsToSql[name] ELSE name

(***************************************************************************)
(* The helper applied to bounded inputs.                                   *)
(***************************************************************************)
FieldNames == {"firstName", "lastName", "age", "email"}

FieldValues == {"Aliya", "32"}

SqlNames == [firstName |-> "first_name", lastName |-> "last_name",
             age |-> "age_years", email |-> "email_address"]

\* Objects of at most n of the given entries, with distinct keys.
Objects(entries, n) ==
    UNION { { o \in [1..k -> entries] :
                \A i, j \in 1..k : i # j => o[i][1] # o[j][1] } : k \in 0..n }

\* Column mappings: any subset of the field names, each to its column name.
Mappings == { [k \in s |-> SqlNames[k]] : s \in SUBSET FieldNames }

NoDb == [users |-> <<>>, companies |-> <<>>, jobs |-> {}, applications |-> {}]

InitSql ==
    /\ db = NoDb
    /\ req \in [op : {"sqlForPartialUpdate"},
                dataToUpdate : Objects(FieldNames \X FieldValues, MaxEntries),
                jsToSql : Mappings]
    /\ res = [op |-> "none"]
    /\ calls = <<>>

CallSql ==
    /\ res.op = "none"
    /\ res' = [op |-> "sqlForPartialUpdate"] @@
              sqlForPartialUpdate(req.dataToUpdate, req.jsToSql)
    /\ UNCHANGED <<db, req, calls>>

NextSql == CallSql

SpecSql == InitSql /\ [][NextSql]_vars

(***************************************************************************)
(* Storage: the users, companies, jobs and applications relations.         *)
(*   db.users        username -> row, for the usernames that have a row    *)
(*   db.companies    the handles that have a row                           *)
(*   db.jobs         the job ids that have a row                           *)
(*   db.applications the <<username, job id>> pairs that have a row        *)
(***************************************************************************)
MaxJobId == 2

Usernames == {"u1", "u2"}

JobIds == 1..MaxJobId

Handles == {"c1"}

\* ORDER BY username
UsernameOrder == <<"u1", "u2">>

UserColumns == {"password", "first_name", "last_name", "email", "is_admin"}

\* bcrypt.hash(password, BCRYPT_WORK_FACTOR)
BcryptHash(password) == "$2b$" \o password

\* SELECT/RETURNING username, first_name AS "firstName", ..., is_admin AS "isAdmin"
UserRecord(username, row) ==
    [username  |-> username,
     firstName |-> row.first_name,
     lastName  |-> row.last_name,
     email     |-> row.email,
     isAdmin   |-> row.is_admin]

\* o[k] for a plain object o.
Get(o, k) ==
    IF \E i \in 1..Len(o) : o[i][1] = k
    THEN <<o[CHOOSE i \in 1..Len(o) : o[i][1] = k][2]>>
    ELSE Undefined

\* o[k] = v on a property o already has: the property keeps its place.
Put(o, k, v) == [i \in 1..Len(o) |-> IF o[i][1] = k THEN <<k, v>> ELSE o[i]]

\* The first position of token t in s, 0 when s does not hold it.
IndexOf(s, t) ==
    IF \E i \in 1..Len(s) : s[i] = t
    THEN CHOOSE i \in 1..Len(s) : s[i] = t /\ \A j \in 1..(i - 1) : s[j] # t
    ELSE 0

\* The number a placeholder's digits denote among n parameters, 0 when none.
ParamIndex(digits, n) ==
    IF \E k \in 1..n : ToString(k) = digits
    THEN CHOOSE k \in 1..n : ToString(k) = digits
    ELSE 0

Result(d, e, r) == [db |-> d, err |-> e, ret |-> r]

\* ON DELETE CASCADE from applications.username to users.username.
CascadeUser(applications, username) == { a \in applications : a[1] # username }

(***************************************************************************)
(* models/user.js                                                          *)
(***************************************************************************)
\* INSERT INTO users: username is the unique key of the relation, so the
\* statement fails when the key already has a row.
QueryInsertUser(users, username, row) ==
    IF username \in DOMAIN users
    THEN [err |-> "DatabaseError", users |-> users, rows |-> <<>>]
    ELSE [err   |-> "none",
          users |-> [u \in DOMAIN users \cup {username} |->
                        IF u = username THEN row ELSE users[u]],
          rows  |-> <<UserRecord(username, row)>>]

\* The duplicate check of User.register: the error it throws, "none" when
\* the SELECT returns no row.
User_register_duplicateCheck(d, body) ==
    LET duplicateCheck == Lookup(d.users, body.username)
    IN  IF duplicateCheck # Undefined THEN "BadRequestError" ELSE "none"

\* The rest of User.register: bcrypt.hash, the INSERT and the return.
User_register_insert(d, body) ==
    LET hashedPassword == BcryptHash(body.password)
        row == [password   |-> hashedPassword,
                first_name |-> body.firstName,
                last_name  |-> body.lastName,
                email      |-> body.email,
                is_admin   |-> body.isAdmin]
        result == QueryInsertUser(d.users, body.username, row)
    IN  IF result.err # "none" THEN Result(d, result.err, Undefined)
        ELSE Result([d EXCEPT !.users = result.users], "none", <<result.rows[1]>>)

User_register(d, body) ==
    IF User_register_duplicateCheck(d, body) # "none"
    THEN Result(d, User_register_duplicateCheck(d, body), Undefined)
    ELSE User_register_insert(d, body)

User_findAll(d) ==
    LET present == { i \in 1..Len(UsernameOrder) : UsernameOrder[i] \in DOMAIN d.users }
        Nth(k) == CHOOSE i \in present : Cardinality({ j \in present : j <= i }) = k
    IN  Result(d, "none",
               <<[k \in 1..Cardinality(present) |->
                    UserRecord(UsernameOrder[Nth(k)], d.users[UsernameOrder[Nth(k)]])]>>)

\* result.rows.map(...) is evaluated and dropped: the function returns undefined.
User_getUserApplications(d, username) == Undefined

User_get(d, username) ==
    LET userRes == Lookup(d.users, username)
        jobIds  == User_getUserApplications(d, username)
    IN  IF userRes = Undefined
        THEN Result(d, "NotFoundError", Undefined)
        ELSE Result(d, "none",
                    <<UserRecord(username, userRes[1]) @@ [josb |-> jobIds]>>)

UserJsToSql ==
    [firstName |-> "first_name", lastName |-> "last_name", isAdmin |-> "is_admin"]

\* QueryUpdateUsers with the WHERE clause ignored when the rows are written.
QueryUpdateUsersEveryRow(users, querySql, params) ==
    LET w        == IndexOf(querySql, " WHERE username = ")
        assigns  == Fragments(SubSeq(querySql, 2, w - 1))
        whereIdx == ParamIndex(querySql[w + 2], Len(params))
        Bound(i) == ParamIndex(assigns[i][4], Len(params))
        wellFormed ==
            /\ whereIdx # 0
            /\ \A i \in 1..Len(assigns) :
                 /\ IsAssignment(assigns[i])
                 /\ assigns[i][2] \in UserColumns
                 /\ Bound(i) # 0
        key      == params[whereIdx]
        NewRow(row) ==
            [c \in UserColumns |->
                IF \E i \in 1..Len(assigns) : assigns[i][2] = c
                THEN params[Bound(CHOOSE i \in 1..Len(assigns) : assigns[i][2] = c)]
                ELSE row[c]]
    IN  IF ~wellFormed
        THEN [err |-> "DatabaseError", users |-> users, rows |-> <<>>]
        ELSE IF key \notin DOMAIN users
        THEN [err |-> "none", users |-> users, rows |-> <<>>]
        ELSE [err   |-> "none",
              users |-> [u \in DOMAIN users |-> NewRow(users[u])],
              rows  |-> <<UserRecord(key, NewRow(users[key]))>>]

\* db.query of the UPDATE statement User.update composes, parameters bound
\* by position.
QueryUpdateUsers(users, querySql, params) ==
    LET w        == IndexOf(querySql, " WHERE username = ")
        assigns  == Fragments(SubSeq(querySql, 2, w - 1))
        whereIdx == ParamIndex(querySql[w + 2], Len(params))
        Bound(i) == ParamIndex(assigns[i][4], Len(params))
        wellFormed ==
            /\ whereIdx # 0
            /\ \A i \in 1..Len(assigns) :
                 /\ IsAssignment(assigns[i])
                 /\ assigns[i][2] \in UserColumns
                 /\ Bound(i) # 0
        key      == params[whereIdx]
        NewRow(row) ==
            [c \in UserColumns |->
                IF \E i \in 1..Len(assigns) : assigns[i][2] = c
                THEN params[Bound(CHOOSE i \in 1..Len(assigns) : assigns[i][2] = c)]
                ELSE row[c]]
    IN  IF ~wellFormed
        THEN [err |-> "DatabaseError", users |-> users, rows |-> <<>>]
        ELSE IF key \notin DOMAIN users
        THEN [err |-> "none", users |-> users, rows |-> <<>>]
        ELSE [err   |-> "none",
              users |-> [users EXCEPT ![key] = NewRow(users[key])],
              rows  |-> <<UserRecord(key, NewRow(users[key]))>>]

\* if (data.password) data.password = await bcrypt.hash(data.password, ...)
User_update_hashed(data) ==
    IF Truthy(Get(data, "password"))
    THEN Put(data, "password", BcryptHash(Get(data, "password")[1]))
    ELSE data

\* User_update_query with the WHERE placeholder numbered Len(values).
User_update_queryOffByOne(username, setCols, values) ==
    LET usernameVarIdx == <<"$", ToString(Len(values))>>
        querySql == <<"UPDATE users SET ">> \o setCols
                    \o <<" WHERE username = ">> \o usernameVarIdx
                    \o <<" RETURNING username, first_name AS \"firstName\", last_name AS \"lastName\", email, is_admin AS \"isAdmin\"">>
    IN  [querySql |-> querySql, params |-> values \o <<username>>]

\* The statement User.update composes from the builder's result, and the
\* parameters it passes with it.
User_update_query(username, setCols, values) ==
    LET usernameVarIdx == <<"$", ToString(Len(values) + 1)>>
        querySql == <<"UPDATE users SET ">> \o setCols
                    \o <<" WHERE username = ">> \o usernameVarIdx
                    \o <<" RETURNING username, first_name AS \"firstName\", last_name AS \"lastName\", email, is_admin AS \"isAdmin\"">>
    IN  [querySql |-> querySql, params |-> values \o <<username>>]

\* The statements User.update sends to db.query, in order.
User_update_queries(username, data) ==
    LET sql == sqlForPartialUpdate(User_update_hashed(data), UserJsToSql)
    IN  IF sql.err # "none" THEN <<>>
        ELSE <<User_update_query(username, sql.ret[1].setCols, sql.ret[1].values)>>

User_update(d, username, data) ==
    LET sql    == sqlForPartialUpdate(User_update_hashed(data), UserJsToSql)
        query  == User_update_query(username, sql.ret[1].setCols, sql.ret[1].values)
        result == QueryUpdateUsers(d.users, query.querySql, query.params)
    IN  IF sql.err # "none" THEN Result(d, sql.err, Undefined)
        ELSE IF result.err # "none" THEN Result(d, result.err, Undefined)
        ELSE IF result.rows = <<>> THEN Result(d, "NotFoundError", Undefined)
        ELSE Result([d EXCEPT !.users = result.users], "none", <<result.rows[1]>>)

\* INSERT INTO applications: (username, job_id) is the key of the relation,
\* so the statement fails when the pair already has a row.
QueryInsertApplication(applications, username, jobId) ==
    IF <<username, jobId>> \in applications
    THEN [err |-> "DatabaseError", applications |-> applications]
    ELSE [err |-> "none", applications |-> applications \cup {<<username, jobId>>}]

User_applyForJobNoJobCheck(d, username, jobId) ==
    LET userCheck == Lookup(d.users, username)
        inserted  == QueryInsertApplication(d.applications, username, jobId)
    IN  IF userCheck = Undefined THEN Result(d, "NotFoundError", Undefined)
        ELSE IF inserted.err # "none" THEN Result(d, inserted.err, Undefined)
        ELSE Result([d EXCEPT !.applications = inserted.applications],
                    "none", <<[applied |-> jobId]>>)

User_applyForJob(d, username, jobId) ==
    LET userCheck == Lookup(d.users, username)
        jobCheck  == IF jobId \in d.jobs THEN <<jobId>> ELSE Undefined
        inserted  == QueryInsertApplication(d.applications, username, jobId)
    IN  IF userCheck = Undefined THEN Result(d, "NotFoundError", Undefined)
        ELSE IF jobCheck = Undefined THEN Result(d, "NotFoundError", Undefined)
        ELSE IF inserted.err # "none" THEN Result(d, inserted.err, Undefined)
        ELSE Result([d EXCEPT !.applications = inserted.applications],
                    "none", <<[applied |-> jobId]>>)

User_removeNoCheck(d, username) ==
    Result([d EXCEPT !.users = [u \in DOMAIN d.users \ {username} |-> d.users[u]],
                     !.applications = CascadeUser(d.applications, username)],
           "none", Undefined)

User_remove(d, username) ==
    LET result == Lookup(d.users, username)
    IN  IF result = Undefined THEN Result(d, "NotFoundError", Undefined)
        ELSE Result([d EXCEPT
                        !.users = [u \in DOMAIN d.users \ {username} |-> d.users[u]],
                        !.applications = CascadeUser(d.applications, username)],
                    "none", Undefined)

(***************************************************************************)
(* models/company.js                                                       *)
(*   db.companies is handle -> row, for the handles that have a row.       *)
(***************************************************************************)
CompanyColumns == {"name", "num_employees"}

\* unary plus on the decimal digits of a small number
ToNumber(s) == CHOOSE k \in 0..9 : ToString(k) = s

\* name ILIKE '%' || nameLike || '%'
ILikeContains(name, nameLike) == <<name, nameLike>> \in {<<"Netflix", "net">>}

Company_create(d, body) ==
    IF body.handle \in DOMAIN d.companies
    THEN Result(d, "BadRequestError", Undefined)
    ELSE Result([d EXCEPT !.companies =
                    [h \in DOMAIN d.companies \cup {body.handle} |->
                        IF h = body.handle
                        THEN [name |-> body.name, num_employees |-> body.numEmployees]
                        ELSE d.companies[h]]],
                "none", <<body>>)

Company_findAll(d, filter) ==
    LET Shown(h) ==
            /\ filter.nameLike # Undefined =>
                  ILikeContains(d.companies[h].name, filter.nameLike[1])
            /\ filter.minEmployees # Undefined =>
                  ToNumber(d.companies[h].num_employees) >= ToNumber(filter.minEmployees[1])
            /\ filter.maxEmployees # Undefined =>
                  ToNumber(d.companies[h].num_employees) <= ToNumber(filter.maxEmployees[1])
    IN  IF /\ filter.minEmployees # Undefined
           /\ filter.maxEmployees # Undefined
           /\ ToNumber(filter.minEmployees[1]) > ToNumber(filter.maxEmployees[1])
        THEN Result(d, "BadRequestError", Undefined)
        ELSE Result(d, "none", <<{ h \in DOMAIN d.companies : Shown(h) }>>)

Company_get(d, handle) ==
    IF handle \notin DOMAIN d.companies
    THEN Result(d, "NotFoundError", Undefined)
    ELSE Result(d, "none", <<[handle |-> handle] @@ d.companies[handle]>>)

Company_update(d, handle, data) ==
    LET sql == sqlForPartialUpdate(data, [numEmployees |-> "num_employees",
                                          logoUrl      |-> "logo_url"])
        assigns == Fragments(sql.ret[1].setCols)
        NewRow(row) ==
            [c \in CompanyColumns |->
                IF \E i \in 1..Len(assigns) : assigns[i][2] = c
                THEN sql.ret[1].values[CHOOSE i \in 1..Len(assigns) : assigns[i][2] = c]
                ELSE row[c]]
    IN  IF sql.err # "none" THEN Result(d, sql.err, Undefined)
        ELSE IF handle \notin DOMAIN d.companies
        THEN Result(d, "NotFoundError", Undefined)
        ELSE Result([d EXCEPT !.companies[handle] = NewRow(@)], "none",
                    <<[handle |-> handle] @@ NewRow(d.companies[handle])>>)

Company_remove(d, handle) ==
    IF handle \notin DOMAIN d.companies
    THEN Result(d, "NotFoundError", Undefined)
    ELSE Result([d EXCEPT !.companies =
                    [h \in DOMAIN d.companies \ {handle} |-> d.companies[h]]],
                "none", Undefined)

(***************************************************************************)
(* middleware/auth.js                                                      *)
(***************************************************************************)
\* res.locals.user is the payload of a valid token, and is left unset without.
authenticateJWT(r) == [user |-> r.token]

\* Throws UnauthorizedError unless res.locals.user is set.
ensureLoggedIn(locals) ==
    IF locals.user = Undefined THEN "UnauthorizedError" ELSE "none"

(***************************************************************************)
(* Route handlers. A handler's outcome is the storage it leaves, the error *)
(* it passes to next() ("none" when it responds), what it responds with    *)
(* and the model operations it called, in order.                           *)
(***************************************************************************)
Outcome(d, e, r, c) == [db |-> d, err |-> e, ret |-> r, calls |-> c]

Throw(d, e) == Outcome(d, e, Undefined, <<>>)

Called(name, out) == Outcome(out.db, out.err, out.ret, <<name>>)

\* The error the middleware chain authenticateJWT, ensureLoggedIn ends a
\* request with, "none" when it passes the request on to the handler.
LoggedIn(r) == ensureLoggedIn(authenticateJWT(r))

(***************************************************************************)
(* routes/users.js                                                         *)
(***************************************************************************)
users_post_handler_login_only(d, r, locals) ==
    IF locals.user = Undefined THEN Throw(d, "TypeError")
    ELSE IF ~r.body.valid THEN Throw(d, "BadRequestError")
    ELSE Called("User.register", User_register(d, r.body.data))

users_post_handler(d, r, locals) ==
    IF locals.user = Undefined THEN Throw(d, "TypeError")
    ELSE IF ~locals.user[1].isAdmin THEN Throw(d, "UnauthorizedError")
    ELSE IF ~r.body.valid THEN Throw(d, "BadRequestError")
    ELSE Called("User.register", User_register(d, r.body.data))

users_post(d, r) ==
    IF LoggedIn(r) # "none" THEN Throw(d, LoggedIn(r))
    ELSE users_post_handler(d, r, authenticateJWT(r))

users_get_handler(d, r, locals) ==
    IF locals.user = Undefined THEN Throw(d, "TypeError")
    ELSE IF ~locals.user[1].isAdmin THEN Throw(d, "UnauthorizedError")
    ELSE Called("User.findAll", User_findAll(d))

users_get(d, r) ==
    IF LoggedIn(r) # "none" THEN Throw(d, LoggedIn(r))
    ELSE users_get_handler(d, r, authenticateJWT(r))

\* users_get_username_handler with the lookup made before the guard.
users_get_username_handler_lookup_first(d, r, locals) ==
    LET username    == Get(r.params, "username")[1]
        currentUser == locals.user
        user        == User_get(d, username)
    IN  IF currentUser = Undefined THEN Throw(d, "TypeError")
        ELSE IF user.err # "none" THEN Called("User.get", user)
        ELSE IF currentUser[1].username # username /\ ~currentUser[1].isAdmin
        THEN Throw(d, "UnauthorizedError")
        ELSE Called("User.get", user)

users_get_username_handler(d, r, locals) ==
    LET username    == Get(r.params, "username")[1]
        currentUser == locals.user
    IN  IF currentUser = Undefined THEN Throw(d, "TypeError")
        ELSE IF currentUser[1].username # username /\ ~currentUser[1].isAdmin
        THEN Throw(d, "UnauthorizedError")
        ELSE Called("User.get", User_get(d, Get(r.params, "username")[1]))

users_get_username_no_login(d, r) ==
    users_get_username_handler(d, r, authenticateJWT(r))

users_get_username(d, r) ==
    IF LoggedIn(r) # "none" THEN Throw(d, LoggedIn(r))
    ELSE users_get_username_handler(d, r, authenticateJWT(r))

users_patch_username_handler_schema_first(d, r, locals) ==
    LET username    == Get(r.params, "username")[1]
        currentUser == locals.user
    IN  IF ~r.body.valid THEN Throw(d, "BadRequestError")
        ELSE IF currentUser = Undefined THEN Throw(d, "TypeError")
        ELSE IF currentUser[1].username # username /\ ~currentUser[1].isAdmin
        THEN Throw(d, "UnauthorizedError")
        ELSE Called("User.update", User_update(d, Get(r.params, "username")[1], r.body.data))

users_patch_username_handler(d, r, locals) ==
    LET username    == Get(r.params, "username")[1]
        currentUser == locals.user
    IN  IF currentUser = Undefined THEN Throw(d, "TypeError")
        ELSE IF currentUser[1].username # username /\ ~currentUser[1].isAdmin
        THEN Throw(d, "UnauthorizedError")
        ELSE IF ~r.body.valid THEN Throw(d, "BadRequestError")
        ELSE Called("User.update", User_update(d, Get(r.params, "username")[1], r.body.data))

users_patch_username(d, r) ==
    IF LoggedIn(r) # "none" THEN Throw(d, LoggedIn(r))
    ELSE users_patch_username_handler(d, r, authenticateJWT(r))

users_post_username_jobs_id_handler_or(d, r, locals) ==
    LET username    == Get(r.params, "username")[1]
        jobId       == ToNumber(Get(r.params, "id")[1])
        currentUser == locals.user
    IN  IF currentUser = Undefined THEN Throw(d, "TypeError")
        ELSE IF currentUser[1].username # username \/ ~currentUser[1].isAdmin
        THEN Throw(d, "UnauthorizedError")
        ELSE Called("User.applyForJob", User_applyForJob(d, username, jobId))

users_post_username_jobs_id_handler(d, r, locals) ==
    LET username    == Get(r.params, "username")[1]
        jobId       == ToNumber(Get(r.params, "id")[1])
        currentUser == locals.user
    IN  IF currentUser = Undefined THEN Throw(d, "TypeError")
        ELSE IF currentUser[1].username # username /\ ~currentUser[1].isAdmin
        THEN Throw(d, "UnauthorizedError")
        ELSE LET application == User_applyForJob(d, username, jobId)
             IN  IF application.err # "none"
                 THEN Called("User.applyForJob", application)
                 ELSE Outcome(application.db, "none", <<[applied |-> jobId]>>,
                              <<"User.applyForJob">>)

users_post_username_jobs_id(d, r) ==
    IF LoggedIn(r) # "none" THEN Throw(d, LoggedIn(r))
    ELSE users_post_username_jobs_id_handler(d, r, authenticateJWT(r))

users_delete_username_handler_unguarded(d, r, locals) ==
    Called("User.remove", User_remove(d, Get(r.params, "username")[1]))

users_delete_username_handler(d, r, locals) ==
    LET username    == Get(r.params, "username")[1]
        currentUser == locals.user
    IN  IF currentUser = Undefined THEN Throw(d, "TypeError")
        ELSE IF currentUser[1].username # username /\ ~currentUser[1].isAdmin
        THEN Throw(d, "UnauthorizedError")
        ELSE LET removed == User_remove(d, Get(r.params, "username")[1])
             IN  IF removed.err # "none" THEN Called("User.remove", removed)
                 ELSE Outcome(removed.db, "none",
                              <<[deleted |-> Get(r.params, "username")[1]]>>, <<"User.remove">>)

users_delete_username(d, r) ==
    IF LoggedIn(r) # "none" THEN Throw(d, LoggedIn(r))
    ELSE users_delete_username_handler(d, r, authenticateJWT(r))

(***************************************************************************)
(* routes/companies.js                                                     *)
(***************************************************************************)
companies_post_handler(d, r, locals) ==
    LET currentUser == locals.user
    IN  IF currentUser = Undefined THEN Throw(d, "TypeError")
        ELSE IF ~currentUser[1].isAdmin THEN Throw(d, "UnauthorizedError")
        ELSE IF ~r.body.valid THEN Throw(d, "BadRequestError")
        ELSE Called("Company.create", Company_create(d, r.body.data))

companies_post(d, r) ==
    IF LoggedIn(r) # "none" THEN Throw(d, LoggedIn(r))
    ELSE companies_post_handler(d, r, authenticateJWT(r))

\* The filters are read from req.params, which holds the path parameters
\* of the route; the query string is in req.query.
companies_get(d, r) ==
    LET nameLike     == Get(r.params, "nameLike")
        minEmployees == Get(r.params, "minEmployees")
        maxEmployees == Get(r.params, "maxEmployees")
    IN  IF /\ minEmployees # Undefined
           /\ maxEmployees # Undefined
           /\ ToNumber(minEmployees[1]) > ToNumber(maxEmployees[1])
        THEN Throw(d, "BadRequestError")
        ELSE Called("Company.findAll",
                    Company_findAll(d, [nameLike     |-> nameLike,
                                        minEmployees |-> minEmployees,
                                        maxEmployees |-> maxEmployees]))

companies_get_handle(d, r) ==
    Called("Company.get", Company_get(d, Get(r.params, "handle")[1]))

companies_patch_handle_handler(d, r, locals) ==
    LET currentUser == locals.user
    IN  IF currentUser = Undefined THEN Throw(d, "TypeError")
        ELSE IF ~currentUser[1].isAdmin THEN Throw(d, "UnauthorizedError")
        ELSE IF ~r.body.valid THEN Throw(d, "BadRequestError")
        ELSE Called("Company.update",
                    Company_update(d, Get(r.params, "handle")[1], r.body.data))

companies_patch_handle(d, r) ==
    IF LoggedIn(r) # "none" THEN Throw(d, LoggedIn(r))
    ELSE companies_patch_handle_handler(d, r, authenticateJWT(r))

companies_delete_handle_handler(d, r, locals) ==
    LET currentUser == locals.user
        removed     == Company_remove(d, Get(r.params, "handle")[1])
    IN  IF currentUser = Undefined THEN Throw(d, "TypeError")
        ELSE IF ~currentUser[1].isAdmin THEN Throw(d, "UnauthorizedError")
        ELSE IF removed.err # "none" THEN Called("Company.remove", removed)
        ELSE Outcome(removed.db, "none",
                     <<[deleted |-> Get(r.params, "handle")[1]]>>, <<"Company.remove">>)

companies_delete_handle(d, r) ==
    IF LoggedIn(r) # "none" THEN Throw(d, LoggedIn(r))
    ELSE companies_delete_handle_handler(d, r, authenticateJWT(r))

(***************************************************************************)
(* The User model called directly.                                         *)
(***************************************************************************)
MaxUpdateEntries == 2

NewUser(username, isAdmin) ==
    [username  |-> username,
     password  |-> "password",
     firstName |-> "First",
     lastName  |-> "Last",
     email     |-> "user@user.com",
     isAdmin   |-> isAdmin]

NewCompany(handle) ==
    [handle |-> handle, name |-> "Netflix", numEmployees |-> "1"]

EmptyDb == [users |-> <<>>, companies |-> <<>>, jobs |-> {1}, applications |-> {}]

\* One account, one company and one job exist at the start.
SeededDb ==
    Company_create(User_register(EmptyDb, NewUser("u1", "false")).db,
                   NewCompany("c1")).db

UpdateEntries ==
    {<<"firstName", "New">>, <<"password", "">>, <<"password", "pw">>,
     <<"isAdmin", "true">>}

Respond(op, out) ==
    /\ db' = out.db
    /\ res' = [op |-> op, err |-> out.err, ret |-> out.ret]
    /\ calls' = IF op = "User.update"
                THEN User_update_queries(req'.username, req'.data)
                ELSE <<>>

InitUser ==
    /\ db = SeededDb
    /\ req = [op |-> "none"]
    /\ res = [op |-> "none"]
    /\ calls = <<>>

CallRegister ==
    \E u \in Usernames, a \in {"false", "true"} :
        /\ req' = [op |-> "User.register", body |-> NewUser(u, a)]
        /\ Respond("User.register", User_register(db, NewUser(u, a)))

CallFindAll ==
    /\ req' = [op |-> "User.findAll"]
    /\ Respond("User.findAll", User_findAll(db))

CallGet ==
    \E u \in Usernames :
        /\ req' = [op |-> "User.get", username |-> u]
        /\ Respond("User.get", User_get(db, u))

CallUpdate ==
    \E u \in Usernames, data \in Objects(UpdateEntries, MaxUpdateEntries) :
        /\ req' = [op |-> "User.update", username |-> u, data |-> data]
        /\ Respond("User.update", User_update(db, u, data))

CallApplyForJob ==
    \E u \in Usernames, j \in JobIds :
        /\ req' = [op |-> "User.applyForJob", username |-> u, jobId |-> j]
        /\ Respond("User.applyForJob", User_applyForJob(db, u, j))

CallRemove ==
    \E u \in Usernames :
        /\ req' = [op |-> "User.remove", username |-> u]
        /\ Respond("User.remove", User_remove(db, u))

NextUser ==
    \/ CallRegister
    \/ CallFindAll
    \/ CallGet
    \/ CallUpdate
    \/ CallApplyForJob
    \/ CallRemove

SpecUser == InitUser /\ [][NextUser]_vars

(***************************************************************************)
(* The routers serving requests. A request is its route, the payload of    *)
(* the token it carries (undefined without a valid token), its path        *)
(* parameters, its query string and its body; a body carries the verdict   *)
(* of jsonschema.validate on it.                                           *)
(***************************************************************************)
Tokens ==
    {Undefined,
     <<[username |-> "u1", isAdmin |-> FALSE]>>,
     <<[username |-> "u2", isAdmin |-> TRUE]>>}

EmployeeCounts == {"1", "2"}

Optional(S) == {Undefined} \cup { <<x>> : x \in S }

Entry(k, v) == IF v = Undefined THEN <<>> ELSE <<<<k, v[1]>>>>

Queries ==
    { Entry("nameLike", n) \o Entry("minEmployees", lo) \o Entry("maxEmployees", hi) :
        n \in Optional({"net"}), lo \in Optional(EmployeeCounts),
        hi \in Optional(EmployeeCounts) }

NoBody == [valid |-> TRUE, data |-> <<>>]

Request(route, token, params, query, body) ==
    [route |-> route, token |-> token, params |-> params, query |-> query,
     body |-> body]

Serve(r, out) ==
    /\ req' = r
    /\ db' = out.db
    /\ res' = [err |-> out.err, ret |-> out.ret]
    /\ calls' = out.calls

Init ==
    /\ db = SeededDb
    /\ req = [route |-> "none"]
    /\ res = [err |-> "none", ret |-> Undefined]
    /\ calls = <<>>

PostUsers ==
    \E t \in Tokens, v \in BOOLEAN, u \in Usernames :
        LET r == Request("POST /users", t, <<>>, <<>>,
                         [valid |-> v, data |-> NewUser(u, "false")])
        IN  Serve(r, users_post(db, r))

GetUsers ==
    \E t \in Tokens :
        LET r == Request("GET /users", t, <<>>, <<>>, NoBody)
        IN  Serve(r, users_get(db, r))

GetUser ==
    \E t \in Tokens, u \in Usernames :
        LET r == Request("GET /users/:username", t, <<<<"username", u>>>>, <<>>, NoBody)
        IN  Serve(r, users_get_username(db, r))

PatchUser ==
    \E t \in Tokens, u \in Usernames, v \in BOOLEAN,
       data \in Objects({<<"firstName", "New">>}, 1) :
        LET r == Request("PATCH /users/:username", t, <<<<"username", u>>>>, <<>>,
                         [valid |-> v, data |-> data])
        IN  Serve(r, users_patch_username(db, r))

PostUserJob ==
    \E t \in Tokens, u \in Usernames, j \in JobIds :
        LET r == Request("POST /users/:username/jobs/:id", t,
                         <<<<"username", u>>, <<"id", ToString(j)>>>>, <<>>, NoBody)
        IN  Serve(r, users_post_username_jobs_id(db, r))

DeleteUser ==
    \E t \in Tokens, u \in Usernames :
        LET r == Request("DELETE /users/:username", t, <<<<"username", u>>>>, <<>>,
                         NoBody)
        IN  Serve(r, users_delete_username(db, r))

PostCompanies ==
    \E t \in Tokens, v \in BOOLEAN, h \in Handles :
        LET r == Request("POST /companies", t, <<>>, <<>>,
                         [valid |-> v, data |-> NewCompany(h)])
        IN  Serve(r, companies_post(db, r))

GetCompanies ==
    \E t \in Tokens, q \in Queries :
        LET r == Request("GET /companies", t, <<>>, q, NoBody)
        IN  Serve(r, companies_get(db, r))

GetCompany ==
    \E t \in Tokens, h \in Handles :
        LET r == Request("GET /companies/:handle", t, <<<<"handle", h>>>>, <<>>, NoBody)
        IN  Serve(r, companies_get_handle(db, r))

PatchCompany ==
    \E t \in Tokens, h \in Handles, v \in BOOLEAN,
       data \in Objects({<<"name", "New">>}, 1) :
        LET r == Request("PATCH /companies/:handle", t, <<<<"handle", h>>>>, <<>>,
                         [valid |-> v, data |-> data])
        IN  Serve(r, companies_patch_handle(db, r))

DeleteCompany ==
    \E t \in Tokens, h \in Handles :
        LET r == Request("DELETE /companies/:handle", t, <<<<"handle", h>>>>, <<>>,
                         NoBody)
        IN  Serve(r, companies_delete_handle(db, r))

Next ==
    \/ PostUsers
    \/ GetUsers
    \/ GetUser
    \/ PatchUser
    \/ PostUserJob
    \/ DeleteUser
    \/ PostCompanies
    \/ GetCompanies
    \/ GetCompany
    \/ PatchCompany
    \/ DeleteCompany

Spec == Init /\ [][Next]_vars

(***************************************************************************)
(* C1. For a non-empty field map of n entries, sqlForPartialUpdate returns *)
(* n values and a clause of exactly n fragments whose placeholders are     *)
(* $1..$n in order; the k-th fragment names the column of the k-th entry   *)
(* and the k-th value is the k-th entry's value.                           *)
(***************************************************************************)
C1_PlaceholdersMatchValues ==
    (SqlReturned /\ Len(req.dataToUpdate) > 0) =>
        /\ res.err = "none"
        /\ LET n   == Len(req.dataToUpdate)
               out == res.ret[1]
               fr  == Fragments(out.setCols)
           IN  /\ Len(out.values) = n
               /\ Len(fr) = n
               /\ \A k \in 1..n :
                    /\ IsAssignment(fr[k])
                    /\ fr[k][4] = ToString(k)
                    /\ fr[k][2] = Resolved(req.jsToSql, req.dataToUpdate[k][1])
                    /\ out.values[k] = req.dataToUpdate[k][2]

C1_Witness ==
    /\ SqlReturned
    /\ Len(req.dataToUpdate) = MaxEntries
    /\ req.dataToUpdate[1][1] = "firstName"
    /\ req.jsToSql = [k \in {"firstName"} |-> "first_name"]
    /\ res.err = "none"
    /\ Len(res.ret[1].values) = MaxEntries

(***************************************************************************)
(* C2. With an empty field map sqlForPartialUpdate throws BadRequestError  *)
(* whatever the column mapping, and nothing (no clause, no value sequence) *)
(* is produced.                                                            *)
(***************************************************************************)
C2_EmptyFieldMapRejected ==
    (SqlReturned /\ req.dataToUpdate = <<>>) =>
        res.err = "BadRequestError" /\ res.ret = Undefined

C2_Witness ==
    /\ SqlReturned
    /\ req.dataToUpdate = <<>>
    /\ DOMAIN req.jsToSql = FieldNames
    /\ res.err = "BadRequestError"

PublicRoutes == {"GET /companies", "GET /companies/:handle"}

AdminOnlyRoutes ==
    {"POST /users", "GET /users", "POST /companies",
     "PATCH /companies/:handle", "DELETE /companies/:handle"}

SelfOrAdminRoutes ==
    {"GET /users/:username", "PATCH /users/:username", "DELETE /users/:username",
     "POST /users/:username/jobs/:id"}

GuardedRoutes == AdminOnlyRoutes \cup SelfOrAdminRoutes

PayloadRoutes ==
    {"POST /users", "PATCH /users/:username", "POST /companies",
     "PATCH /companies/:handle"}

Anonymous(r) == r.token = Undefined

IsAdmin(r) == r.token # Undefined /\ r.token[1].isAdmin

IsOwner(r) ==
    /\ r.token # Undefined
    /\ Get(r.params, "username") = <<r.token[1].username>>

\* The guard's decision on a request of a guarded route.
Denied(r) ==
    \/ Anonymous(r)
    \/ r.route \in AdminOnlyRoutes /\ ~IsAdmin(r)
    \/ r.route \in SelfOrAdminRoutes /\ ~IsAdmin(r) /\ ~IsOwner(r)

(***************************************************************************)
(* C4. On every guarded route a denied request invokes no User or Company  *)
(* model operation and leaves storage unchanged.                           *)
(***************************************************************************)
C4_DenyBeforeRepository ==
    [][ (req'.route \in GuardedRoutes /\ Denied(req')) =>
            calls' = <<>> /\ db' = db ]_vars

C4_Witness ==
    /\ req.route = "DELETE /users/:username"
    /\ ~Anonymous(req)
    /\ Denied(req)
    /\ Get(req.params, "username")[1] \in DOMAIN db.users
    /\ calls = <<>>

(***************************************************************************)
(* C5. A request without identity is answered UnauthorizedError on every   *)
(* guarded route and is not on the public routes, which answer             *)
(* UnauthorizedError to no identity at all.                                *)
(***************************************************************************)
C5_AnonymousOnlyPublic ==
    /\ (req.route \in GuardedRoutes /\ Anonymous(req)) =>
            res.err = "UnauthorizedError"
    /\ req.route \in PublicRoutes => res.err # "UnauthorizedError"

C5_Witness ==
    /\ req.route = "GET /users/:username"
    /\ Anonymous(req)
    /\ Get(req.params, "username")[1] \in DOMAIN db.users
    /\ res.err = "UnauthorizedError"

(***************************************************************************)
(* C6. On the self-or-admin routes a request with an identity passes the   *)
(* guard exactly when the identity's username is the :username of the path *)
(* or the identity is an administrator; any other identity is answered     *)
(* UnauthorizedError.                                                      *)
(***************************************************************************)
C6_SelfOrAdmin ==
    (req.route \in SelfOrAdminRoutes /\ ~Anonymous(req)) =>
        (res.err # "UnauthorizedError" <=> (IsOwner(req) \/ IsAdmin(req)))

C6_Witness ==
    /\ req.route = "POST /users/:username/jobs/:id"
    /\ IsOwner(req)
    /\ ~IsAdmin(req)
    /\ res.err = "none"
    /\ calls = <<"User.applyForJob">>

(***************************************************************************)
(* C7. On the admin-only routes a request passes the guard exactly when    *)
(* its identity is an administrator: an identity that is not is answered   *)
(* UnauthorizedError even for the user it is itself, and the same identity *)
(* passes the guard of the self-or-admin routes for its own username.      *)
(***************************************************************************)
C7_AdminOnly ==
    /\ req.route \in AdminOnlyRoutes =>
            (res.err # "UnauthorizedError" <=> IsAdmin(req))
    /\ (req.route \in SelfOrAdminRoutes /\ IsOwner(req) /\ ~IsAdmin(req)) =>
            res.err # "UnauthorizedError"

C7_Witness ==
    /\ req.route = "POST /users"
    /\ ~Anonymous(req)
    /\ ~IsAdmin(req)
    /\ req.body.valid
    /\ req.body.data.username = req.token[1].username
    /\ res.err = "UnauthorizedError"

(***************************************************************************)
(* C8. A company list request whose query gives a minimum and a maximum    *)
(* employee count with minimum > maximum is answered BadRequestError, and  *)
(* Company.findAll is not called.                                          *)
(***************************************************************************)
C8_InvalidRange(r) ==
    /\ r.route = "GET /companies"
    /\ Get(r.query, "minEmployees") # Undefined
    /\ Get(r.query, "maxEmployees") # Undefined
    /\ ToNumber(Get(r.query, "minEmployees")[1]) >
           ToNumber(Get(r.query, "maxEmployees")[1])

C8_InvalidRangeRejected ==
    C8_InvalidRange(req) => res.err = "BadRequestError" /\ calls = <<>>

(***************************************************************************)
(* C9, as claimed. A create or update request whose payload is             *)
(* schema-invalid is answered BadRequestError whatever the identity the    *)
(* request carries.                                                        *)
(***************************************************************************)
C9_SchemaBeforeGuard ==
    (req.route \in PayloadRoutes /\ ~Anonymous(req) /\ ~req.body.valid) =>
        res.err = "BadRequestError"

(***************************************************************************)
(* C9, amended. On the create and update routes the guard decides first    *)
(* and the schema second: a denied request is answered UnauthorizedError   *)
(* whether or not its payload is schema-valid, and a schema-invalid        *)
(* payload is answered BadRequestError, with no model operation called,    *)
(* when the guard allows the identity.                                     *)
(***************************************************************************)
C9_GuardBeforeSchema ==
    req.route \in PayloadRoutes =>
        /\ Denied(req) => res.err = "UnauthorizedError"
        /\ (~Denied(req) /\ ~req.body.valid) =>
                res.err = "BadRequestError" /\ calls = <<>>

C9_Witness ==
    /\ req.route = "PATCH /users/:username"
    /\ ~req.body.valid
    /\ ~Anonymous(req)
    /\ Denied(req)
    /\ res.err = "UnauthorizedError"

(***************************************************************************)
(* C10. User.get, User.update with a non-empty data map and User.remove,   *)
(* called with a username that has no row, throw NotFoundError and leave   *)
(* storage as it was; called with a username that has a row, none of them  *)
(* throws NotFoundError.                                                   *)
(***************************************************************************)
C10_Keyed ==
    /\ req'.op \in {"User.get", "User.update", "User.remove"}
    /\ req'.op = "User.update" => req'.data # <<>>

C10_NotFoundIffNoRow ==
    [][ C10_Keyed =>
          /\ req'.username \notin DOMAIN db.users =>
                res'.err = "NotFoundError" /\ db' = db
          /\ req'.username \in DOMAIN db.users => res'.err # "NotFoundError"
      ]_vars

C10_Witness ==
    /\ req.op = "User.update"
    /\ Len(req.data) = MaxUpdateEntries
    /\ req.username \notin DOMAIN db.users
    /\ res.err = "NotFoundError"

(***************************************************************************)
(* C11. User.applyForJob for a username or a job id without a row throws   *)
(* NotFoundError and inserts no application; when both have a row and the  *)
(* pair has no application, it inserts the application row of the pair,    *)
(* and nothing else, and returns { applied: jobId }.                       *)
(***************************************************************************)
C11_ApplyForJob ==
    [][ req'.op = "User.applyForJob" =>
          LET u == req'.username
              j == req'.jobId
          IN  /\ (u \notin DOMAIN db.users \/ j \notin db.jobs) =>
                    res'.err = "NotFoundError" /\ db' = db
              /\ (u \in DOMAIN db.users /\ j \in db.jobs
                    /\ <<u, j>> \notin db.applications) =>
                    /\ res'.err = "none"
                    /\ res'.ret = <<[applied |-> j]>>
                    /\ db' = [db EXCEPT !.applications = @ \cup {<<u, j>>}]
      ]_vars

C11_Witness ==
    /\ req.op = "User.applyForJob"
    /\ req.username \in DOMAIN db.users
    /\ req.jobId \notin db.jobs
    /\ db.applications # {}
    /\ res.err = "NotFoundError"

(***************************************************************************)
(* C12. Applying again for a pair that already has an application throws   *)
(* the Conflict client fault (BadRequestError), and the applications       *)
(* relation keeps the one row of the pair.                                 *)
(***************************************************************************)
C12_SecondApplicationIsConflict ==
    (/\ req.op = "User.applyForJob"
     /\ res.err # "none"
     /\ <<req.username, req.jobId>> \in db.applications) =>
        res.err = "BadRequestError"

(***************************************************************************)
(* C13. User.get of an existing user returns the user's record with a jobs *)
(* field holding exactly the job ids the user has applied for.             *)
(***************************************************************************)
C13_GetListsApplications ==
    (req.op = "User.get" /\ res.err = "none") =>
        /\ "jobs" \in DOMAIN res.ret[1]
        /\ res.ret[1].jobs # Undefined
        /\ { res.ret[1].jobs[i] : i \in DOMAIN res.ret[1].jobs } =
              { a[2] : a \in { b \in db.applications : b[1] = req.username } }

(***************************************************************************)
(* C14. On the self-or-admin routes an identity that is neither the        *)
(* administrator nor the :username of the path is answered                 *)
(* UnauthorizedError with no model operation called and storage unchanged, *)
(* whether or not that user is stored; an administrator naming a user that *)
(* is not stored passes the guard and is answered NotFoundError by the     *)
(* model, on PATCH once the payload is valid and names a field.            *)
(***************************************************************************)
C14_Target(r) == Get(r.params, "username")[1]

C14_Stranger(r) ==
    /\ r.route \in SelfOrAdminRoutes
    /\ ~Anonymous(r) /\ ~IsAdmin(r) /\ ~IsOwner(r)

C14_AdminOfAbsent(r, d) ==
    /\ r.route \in SelfOrAdminRoutes
    /\ IsAdmin(r)
    /\ C14_Target(r) \notin DOMAIN d.users

C14_WellFormed(r) ==
    r.route = "PATCH /users/:username" =>
        r.body.valid /\ r.body.data # <<>>

\* As stated: every request of an administrator naming a user that is not
\* stored is answered NotFoundError.
C14_AdminAlwaysNotFound ==
    [][ C14_AdminOfAbsent(req', db) => res'.err = "NotFoundError" ]_vars

C14_DenyIgnoresExistence ==
    [][ /\ C14_Stranger(req') =>
              /\ res' = [err |-> "UnauthorizedError", ret |-> Undefined]
              /\ calls' = <<>>
              /\ db' = db
        /\ (C14_AdminOfAbsent(req', db) /\ C14_WellFormed(req')) =>
              /\ res'.err = "NotFoundError"
              /\ calls' # <<>>
              /\ db' = db ]_vars

C14_Witness ==
    /\ C14_Stranger(req)
    /\ req.route = "GET /users/:username"
    /\ C14_Target(req) \notin DOMAIN db.users
    /\ res.err = "UnauthorizedError"

(***************************************************************************)
(* C15. User.update of a stored user with a non-empty data map succeeds,   *)
(* sets each column named in data (a non-empty password to its bcrypt      *)
(* hash, every other value as supplied), leaves the user's other columns,  *)
(* the other users' rows and the rest of storage unchanged, and returns    *)
(* the user's record after the change; with an empty data map it fails     *)
(* with BadRequestError and changes nothing.                               *)
(***************************************************************************)
C15_Column(k) == Or(Lookup(UserJsToSql, k), k)

C15_Stored(k, v) == IF k = "password" /\ v # "" THEN BcryptHash(v) ELSE v

C15_Frame(u) ==
    /\ DOMAIN db'.users = DOMAIN db.users
    /\ \A o \in DOMAIN db.users \ {u} : db'.users[o] = db.users[o]
    /\ \A c \in UserColumns :
          (\A i \in DOMAIN req'.data : C15_Column(req'.data[i][1]) # c) =>
              db'.users[u][c] = db.users[u][c]
    /\ [db' EXCEPT !.users = db.users] = db

\* As stated: every field named in data holds the supplied value afterwards.
C15_SuppliedValuesStored ==
    [][ (req'.op = "User.update" /\ req'.username \in DOMAIN db.users
           /\ res'.err = "none") =>
            \A i \in DOMAIN req'.data :
                db'.users[req'.username][C15_Column(req'.data[i][1])]
                    = req'.data[i][2] ]_vars

C15_PartialUpdate ==
    [][ (req'.op = "User.update" /\ req'.username \in DOMAIN db.users) =>
            IF req'.data = <<>>
            THEN res'.err = "BadRequestError" /\ db' = db
            ELSE /\ res'.err = "none"
                 /\ \A i \in DOMAIN req'.data :
                       db'.users[req'.username][C15_Column(req'.data[i][1])]
                           = C15_Stored(req'.data[i][1], req'.data[i][2])
                 /\ C15_Frame(req'.username)
                 /\ res'.ret = <<UserRecord(req'.username,
                                            db'.users[req'.username])>> ]_vars

C15_Witness ==
    /\ req.op = "User.update"
    /\ res.err = "none"
    /\ DOMAIN db.users = Usernames
    /\ req.data = <<<<"firstName", "New">>, <<"password", "pw">>>>
    /\ db.users[req.username].first_name = "New"
    /\ db.users[req.username].password = BcryptHash("pw")
    /\ \E o \in Usernames : db.users[o].first_name = "First"

(***************************************************************************)
(* C16. The statement User.update composes for a data map of n entries has *)
(* n assignments numbered $1..$n in order, the WHERE placeholder $(n+1),   *)
(* and the parameters are the n builder values followed by the username:   *)
(* the placeholders are exactly the positions of the parameters, and the   *)
(* username is bound to the WHERE placeholder alone.                       *)
(***************************************************************************)
C16_Statement(q, username, data) ==
    LET n       == Len(data)
        w       == IndexOf(q.querySql, " WHERE username = ")
        assigns == Fragments(SubSeq(q.querySql, 2, w - 1))
        built   == sqlForPartialUpdate(User_update_hashed(data), UserJsToSql)
    IN  /\ w # 0
        /\ q.querySql[w + 1] = "$"
        /\ q.querySql[w + 2] = ToString(n + 1)
        /\ Len(assigns) = n
        /\ \A i \in 1..n : IsAssignment(assigns[i]) /\ assigns[i][4] = ToString(i)
        /\ Len(q.params) = n + 1
        /\ SubSeq(q.params, 1, n) = built.ret[1].values
        /\ q.params[n + 1] = username

C16_WherePlaceholderLast ==
    (req.op = "User.update" /\ req.data # <<>>) =>
        /\ Len(calls) = 1
        /\ C16_Statement(calls[1], req.username, req.data)

C16_Witness ==
    /\ req.op = "User.update"
    /\ Len(req.data) = MaxUpdateEntries
    /\ res.err = "none"
    /\ Len(calls) = 1
    /\ calls[1].params[Len(calls[1].params)] = req.username

(***************************************************************************)
(* C18. Whenever User.update is given a data map with a password key, the  *)
(* parameter its statement binds to the password column is the bcrypt hash *)
(* of the supplied password and is not the supplied value.                 *)
(***************************************************************************)
C18_BoundToPassword(q) ==
    LET w       == IndexOf(q.querySql, " WHERE username = ")
        assigns == Fragments(SubSeq(q.querySql, 2, w - 1))
        i       == CHOOSE i \in 1..Len(assigns) : assigns[i][2] = "password"
    IN  q.params[ParamIndex(assigns[i][4], Len(q.params))]

C18_PasswordAlwaysHashed ==
    (req.op = "User.update" /\ Get(req.data, "password") # Undefined
       /\ calls # <<>>) =>
        /\ C18_BoundToPassword(calls[1]) = BcryptHash(Get(req.data, "password")[1])
        /\ C18_BoundToPassword(calls[1]) # Get(req.data, "password")[1]

(***************************************************************************)
(* Two callers of User.register. A call awaits its duplicate-check SELECT, *)
(* then the bcrypt hash, then its INSERT; the other call's statements may  *)
(* run between them. Here req and res are indexed by caller, res[p].pc is  *)
(* the caller's position in register, and calls is the statement the last  *)
(* step sent to the database.                                              *)
(***************************************************************************)
Callers == {"a", "b"}

InitRegister ==
    /\ db = SeededDb
    /\ req = [p \in Callers |-> [op |-> "none"]]
    /\ res = [p \in Callers |-> [pc |-> "idle"]]
    /\ calls = <<>>

\* The call up to the answer of its duplicate-check SELECT.
RegisterCheck(p) ==
    \E u \in Usernames, a \in {"false", "true"} :
        LET body == NewUser(u, a)
            err  == User_register_duplicateCheck(db, body)
        IN  /\ res[p].pc # "insert"
            /\ req' = [req EXCEPT ![p] = [op |-> "User.register", body |-> body]]
            /\ res' = [res EXCEPT ![p] =
                          IF err # "none"
                          THEN [pc |-> "done", err |-> err, ret |-> Undefined]
                          ELSE [pc |-> "insert"]]
            /\ calls' = <<"SELECT username FROM users">>
            /\ UNCHANGED db

\* The rest of the call: the hash, the INSERT and the return.
RegisterInsert(p) ==
    LET out == User_register_insert(db, req[p].body)
    IN  /\ res[p].pc = "insert"
        /\ db' = out.db
        /\ res' = [res EXCEPT ![p] = [pc |-> "done", err |-> out.err, ret |-> out.ret]]
        /\ calls' = <<"INSERT INTO users">>
        /\ UNCHANGED req

NextRegister ==
    \/ \E p \in Callers : RegisterCheck(p)
    \/ \E p \in Callers : RegisterInsert(p)

SpecRegister == InitRegister /\ [][NextRegister]_vars

(***************************************************************************)
(* C17. Every finished call of User.register has either succeeded or       *)
(* failed with BadRequestError, however the statements of two calls for    *)
(* the same username interleave.                                           *)
(***************************************************************************)
C17_DuplicateIsBadRequest ==
    \A p \in Callers :
        res[p].pc = "done" => res[p].err \in {"none", "BadRequestError"}

====
